---------------------------- MODULE Spec2Model ----------------------------
(***************************************************************************)
(* SVGPanAndZoom (src/svgpanandzoom.js): the Viewer (center, zoom, divider *)
(* and the viewBox it publishes) and the three input handlers (mouse,      *)
(* keyboard, touch) that drive it through the pan and zoom callbacks.      *)
(*                                                                         *)
(* JavaScript numbers are modelled as exact reals, without the rounding of *)
(* IEEE doubles, plus the one non-number NaN.  The reals the program can   *)
(* reach from rational inputs are finite sums  c_1*2^(-e_1) + ... +        *)
(* c_n*2^(-e_n)  with rational c_i and rational 0 <= e_i < 1: Math.pow(2,  *)
(* zoom - 1) of a fractional zoom level is an irrational power of two, and *)
(* panningSet divides by it.  The powers 2^(-e) of distinct e in [0,1) are *)
(* linearly independent over the rationals, so two such sums are the same  *)
(* real exactly when they have the same terms.                             *)
(***************************************************************************)
EXTENDS Integers, Sequences, FiniteSets, TLC

-----------------------------------------------------------------------------
(* Rationals: <<n, d>> in lowest terms, d > 0.                             *)

Abs(i) == IF i < 0 THEN -i ELSE i

RECURSIVE GCD(_, _)
GCD(a, b) == IF b = 0 THEN a ELSE GCD(b, a % b)

Rat(n, d) ==
    LET g == GCD(Abs(n), Abs(d))
        s == IF d < 0 THEN -1 ELSE 1
    IN  <<(s * n) \div g, (s * d) \div g>>

(* The operations go through the least common denominator and cancel      *)
(* before they multiply, which keeps the intermediate integers small.      *)
LCM(a, b)    == (a \div GCD(a, b)) * b
RatAdd(p, q) ==
    LET l == LCM(p[2], q[2])
    IN  Rat(p[1] * (l \div p[2]) + q[1] * (l \div q[2]), l)
RatNeg(p)    == <<-p[1], p[2]>>
RatSub(p, q) == RatAdd(p, RatNeg(q))
RatMul(p, q) ==
    LET a == Rat(p[1], q[2])
        b == Rat(q[1], p[2])
    IN  <<a[1] * b[1], a[2] * b[2]>>
RatDiv(p, q) == RatMul(p, Rat(q[2], q[1]))
RatLt(p, q)  ==
    LET l == LCM(p[2], q[2])
    IN  p[1] * (l \div p[2]) < q[1] * (l \div q[2])
RatFloor(p)  == p[1] \div p[2]

RECURSIVE IntPow(_, _)
IntPow(b, k) == IF k = 0 THEN 1 ELSE b * IntPow(b, k - 1)

(* 2^k for an integer k of either sign.                                    *)
RatPow2(k) == IF k >= 0 THEN <<IntPow(2, k), 1>> ELSE <<1, IntPow(2, -k)>>

-----------------------------------------------------------------------------
(* JavaScript numbers.  t is the set of terms [e, c] standing for          *)
(* c * 2^(-e), with c # 0 and at most one term for each e.                 *)

NaN  == [nan |-> TRUE, t |-> {}]
Zero == [nan |-> FALSE, t |-> {}]

Term(e, c)  == [e |-> e, c |-> c]
Mono(e, c)  == [nan |-> FALSE, t |-> IF c[1] = 0 THEN {} ELSE {Term(e, c)}]
FromRat(r)  == Mono(<<0, 1>>, r)
Num(i)      == FromRat(<<i, 1>>)
Frac(n, d)  == FromRat(Rat(n, d))

Exps(x)     == {m.e : m \in x.t}
Coef(x, e)  == IF e \in Exps(x) THEN (CHOOSE m \in x.t : m.e = e).c ELSE <<0, 1>>

(* A number that is a rational (no irrational power of two in it), and    *)
(* its value; RatOf is not defined for any other number.                   *)
IsRat(x)    == ~x.nan /\ Exps(x) \subseteq {<<0, 1>>}
RatOf(x)    == CHOOSE r \in {Coef(x, <<0, 1>>)} : IsRat(x)
IsMono(x)   == ~x.nan /\ Cardinality(x.t) = 1

NonZero(S)  == {m \in S : m.c[1] # 0}

(* x + y, x - y, -x: NaN is absorbing.                                     *)
NumAdd(x, y) ==
    IF x.nan \/ y.nan THEN NaN
    ELSE [nan |-> FALSE,
          t |-> NonZero({Term(e, RatAdd(Coef(x, e), Coef(y, e))) :
                             e \in Exps(x) \cup Exps(y)})]
NumNeg(x) ==
    IF x.nan THEN NaN
    ELSE [nan |-> FALSE, t |-> {Term(m.e, RatNeg(m.c)) : m \in x.t}]
NumSub(x, y) == NumAdd(x, NumNeg(y))

(* The product of two terms: 2^(-a) * 2^(-b) = 2^(-(a+b)), and             *)
(* 2^(-(a+b)) = (1/2) * 2^(-(a+b-1)) when a + b >= 1.                      *)
TermMul(m, n) ==
    LET s == RatAdd(m.e, n.e)
        c == RatMul(m.c, n.c)
    IN  IF RatLt(s, <<1, 1>>) THEN Mono(s, c)
        ELSE Mono(RatSub(s, <<1, 1>>), RatMul(c, <<1, 2>>))

(* The quotient of two terms: 2^(-a) / 2^(-b) = 2^(-(a-b)), and            *)
(* 2^(b-a) = 2 * 2^(-(1-(b-a))) when a < b.                                *)
TermDiv(m, n) ==
    LET s == RatSub(m.e, n.e)
        c == RatDiv(m.c, n.c)
    IN  IF s[1] >= 0 THEN Mono(s, c)
        ELSE Mono(RatAdd(s, <<1, 1>>), RatMul(c, <<2, 1>>))

(* The sum of the numbers p[2] of a set of pairs p = <<key, number>>.       *)
RECURSIVE SumOver(_)
SumOver(P) ==
    IF P = {} THEN Zero
    ELSE LET p == CHOOSE p \in P : TRUE
         IN  NumAdd(p[2], SumOver(P \ {p}))

(* x * y.                                                                  *)
NumMul(x, y) ==
    IF x.nan \/ y.nan THEN NaN
    ELSE SumOver({<<p, TermMul(p[1], p[2])>> : p \in x.t \X y.t})

(* x / y for a divisor with a single term (every divisor of the program is *)
(* a non-zero constant, a non-zero event field or the divider, a power of  *)
(* two): the operator is not defined for any other divisor.                *)
NumDiv(x, y) ==
    IF x.nan \/ y.nan THEN NaN
    ELSE LET n == CHOOSE n \in y.t : IsMono(y)
         IN  SumOver({<<m, TermDiv(m, n)>> : m \in x.t})

(* x < y on rationals; a comparison with NaN is false.                     *)
NumLt(x, y) ==
    IF x.nan \/ y.nan THEN FALSE ELSE RatLt(RatOf(x), RatOf(y))

(* Math.min and Math.max: NaN if either argument is NaN.                   *)
MathMin(x, y) == IF x.nan \/ y.nan THEN NaN ELSE IF NumLt(y, x) THEN y ELSE x
MathMax(x, y) == IF x.nan \/ y.nan THEN NaN ELSE IF NumLt(x, y) THEN y ELSE x

(* Math.pow(2, x) for a rational x = k + f, k = floor(x): 2^k when f = 0,  *)
(* otherwise 2^(k+1) * 2^(-(1-f)).                                         *)
Pow2(x) ==
    IF x.nan THEN NaN
    ELSE LET r == RatOf(x)
             k == RatFloor(r)
             f == RatSub(r, <<k, 1>>)
         IN  IF f[1] = 0 THEN FromRat(RatPow2(k))
             ELSE Mono(RatSub(<<1, 1>>, f), RatPow2(k + 1))

(* Math.pow(x, 2).                                                         *)
Sqr(x) == NumMul(x, x)

(* Math.sqrt of a rational whose numerator and denominator are perfect     *)
(* squares (the touch positions of the model are chosen so that every      *)
(* distance is one); not defined for any other argument.                   *)
IntSqrt(n) == CHOOSE r \in 0..n : r * r = n
MathSqrt(x) ==
    IF x.nan THEN NaN
    ELSE LET r == RatOf(x) IN FromRat(<<IntSqrt(r[1]), IntSqrt(r[2])>>)

-----------------------------------------------------------------------------
(* Bounds and inputs of the model.                                         *)

(* The number of events (handler runs and direct Viewer calls) of a run.   *)
MaxEvents == 3

(* The documents viewed: <<width, height, offsetWidth of the frame>>.      *)
Documents == {<<800, 600, 400>>, <<1000, 500, 1000>>}

VARIABLES
    viewer,             \* the Viewer object and the SVG document it draws on
    mouse,              \* the MouseHandler object
    touch,              \* the TouchHandler object
    event,              \* the event (or direct call) handled last
    calls,              \* the callbacks the last handler invoked, in order
    defaultPrevented,   \* whether the last handler called preventDefault
    threw,              \* whether the last handler ended by a TypeError
    nEvents,            \* the number of events handled so far
    drag                \* the drag in progress, as the claims about it need it

vars == <<viewer, mouse, touch, event, calls, defaultPrevented, threw, nEvents,
          drag>>

-----------------------------------------------------------------------------
(* SVGPAZ.Viewer                                                           *)

(* The SVG element before the viewer has drawn on it: no viewBox set by    *)
(* the viewer; setAttributeCalls counts the viewBox writes of the event    *)
(* being handled.                                                          *)
NoViewBox == <<>>
Element   == [viewBox |-> NoViewBox, setAttributeCalls |-> 0]

Viewer(elt, width, height, offsetWidth) ==
    [maxWidth       |-> Num(width),
     maxHeight      |-> Num(height),
     centerX        |-> NumDiv(Num(width), Num(2)),
     centerY        |-> NumDiv(Num(height), Num(2)),
     zoom           |-> Num(1),
     divider        |-> Num(1),
     doc            |-> elt,
     containerRatio |-> NumDiv(Num(width), Num(offsetWidth))]

redraw(v) ==
    LET viewWidth  == NumDiv(v.maxWidth, v.divider)
        viewHeight == NumDiv(v.maxHeight, v.divider)
        topX       == NumSub(v.centerX, NumDiv(viewWidth, Num(2)))
        topY       == NumSub(v.centerY, NumDiv(viewHeight, Num(2)))
        viewBox    == <<topX, topY, viewWidth, viewHeight>>
    IN  [v EXCEPT !.doc = [viewBox |-> viewBox,
                           setAttributeCalls |-> @.setAttributeCalls + 1]]

(* Mutants of the two methods: a pan that keeps the center inside the      *)
(* document, and a zoom that derives the divider from the level it had.    *)
Clamp(x, lo, hi) == IF IsRat(x) THEN MathMin(hi, MathMax(lo, x)) ELSE x
panningSetClamped(v, deltaX, deltaY) ==
    redraw([v EXCEPT
        !.centerX = Clamp(NumAdd(@, NumDiv(NumMul(deltaX, v.containerRatio),
                                           v.divider)), Zero, v.maxWidth),
        !.centerY = Clamp(NumAdd(@, NumDiv(NumMul(deltaY, v.containerRatio),
                                           v.divider)), Zero, v.maxHeight)])
zoomSetStaleDivider(v, delta) ==
    LET zoom == MathMin(Num(10), MathMax(Num(1), NumAdd(v.zoom, delta)))
    IN  redraw([v EXCEPT !.zoom = zoom,
                         !.divider = Pow2(NumSub(v.zoom, Num(1)))])

(* Mutant: a pan that draws before it moves the center.                    *)
panningSetRedrawFirst(v, deltaX, deltaY) ==
    [redraw(v) EXCEPT
        !.centerX = NumAdd(@, NumDiv(NumMul(deltaX, v.containerRatio), v.divider)),
        !.centerY = NumAdd(@, NumDiv(NumMul(deltaY, v.containerRatio), v.divider))]

panningSet(v, deltaX, deltaY) ==
    redraw([v EXCEPT
        !.centerX = NumAdd(@, NumDiv(NumMul(deltaX, v.containerRatio), v.divider)),
        !.centerY = NumAdd(@, NumDiv(NumMul(deltaY, v.containerRatio), v.divider))])

(* Mutant: a zoom that brings the center back to the middle.               *)
zoomSetRecenters(v, delta) ==
    LET zoom == MathMin(Num(10), MathMax(Num(1), NumAdd(v.zoom, delta)))
    IN  redraw([v EXCEPT !.centerX = NumDiv(v.maxWidth, Num(2)),
                         !.centerY = NumDiv(v.maxHeight, Num(2)),
                         !.zoom = zoom,
                         !.divider = Pow2(NumSub(zoom, Num(1)))])

zoomSet(v, delta) ==
    LET zoom == MathMin(Num(10), MathMax(Num(1), NumAdd(v.zoom, delta)))
    IN  redraw([v EXCEPT !.zoom = zoom,
                         !.divider = Pow2(NumSub(zoom, Num(1)))])

(* The viewer as an event handler finds it: no viewBox write counted yet.  *)
Dispatched(v) == [v EXCEPT !.doc.setAttributeCalls = 0]

(* The callbacks of SVGPAZ.init, as entries of calls.  (Every record of    *)
(* the module lists its fields in the order in which TLC keeps them.)      *)
PanCall(deltaX, deltaY) == [deltaX |-> deltaX, deltaY |-> deltaY, op |-> "pan"]
ZoomCall(delta)         == [delta |-> delta, op |-> "zoom"]

-----------------------------------------------------------------------------
(* What every event does besides its handler's own state: the event is     *)
(* recorded, the Viewer methods the handler called (cs, in order) are      *)
(* applied to the viewer, each to the state the one before it left.        *)

Apply(v, c) ==
    IF c.op = "pan" THEN panningSet(v, c.deltaX, c.deltaY)
    ELSE zoomSet(v, c.delta)

RECURSIVE ApplyAll(_, _)
ApplyAll(v, cs) ==
    IF cs = <<>> THEN v ELSE ApplyAll(Apply(v, Head(cs)), Tail(cs))

(* The record kept of the drag in progress: where the button was pressed   *)
(* and where the center was then, the sum of the deltas of the pan calls   *)
(* its moves have made, whether the zoom level has changed since the       *)
(* press, and whether a pan has come from elsewhere than its moves.        *)
NoDrag ==
    [press  |-> <<Zero, Zero>>, sum |-> <<Zero, Zero>>,
     start  |-> <<Zero, Zero>>, zoomed |-> FALSE, panned |-> FALSE]

Tracked(ev, cs) ==
    CASE ev.type = "mousedown" ->
            [press  |-> <<Num(ev.clientX), Num(ev.clientY)>>,
             sum    |-> <<Zero, Zero>>,
             start  |-> <<viewer.centerX, viewer.centerY>>,
             zoomed |-> FALSE,
             panned |-> FALSE]
      [] ev.type = "mouseup" -> NoDrag
      [] ev.type = "mousemove" /\ cs # <<>> ->
            [drag EXCEPT !.sum = <<NumAdd(@[1], cs[1].deltaX),
                                   NumAdd(@[2], cs[1].deltaY)>>]
      [] OTHER ->
            IF mouse.dragging
            THEN [drag EXCEPT
                    !.zoomed = @ \/ viewer'.zoom # viewer.zoom,
                    !.panned = @ \/ (cs # <<>> /\ cs[1].op = "pan")]
            ELSE drag

Handled(ev, cs, prevented, thrown) ==
    /\ nEvents < MaxEvents
    /\ nEvents' = nEvents + 1
    /\ event' = ev
    /\ calls' = cs
    /\ defaultPrevented' = prevented
    /\ threw' = thrown
    /\ viewer' = ApplyAll(Dispatched(viewer), cs)
    /\ drag' = Tracked(ev, cs)

(* A field of an event that may be missing (undefined).                    *)
Undefined   == [v |-> 0, def |-> FALSE]
Val(i)      == [v |-> i, def |-> TRUE]
Truthy(x)   == x.def /\ x.v # 0
ToNumber(x) == IF x.def THEN Num(x.v) ELSE NaN

-----------------------------------------------------------------------------
(* SVGPAZ.MouseHandler                                                     *)

MouseHandler == [dragging |-> FALSE, originX |-> Num(0), originY |-> Num(0)]

normalizeWheelDelta(ev) ==
    LET detail     == ev.detail
        wheelDelta == ev.wheelDelta
        n          == Num(225)
        n1         == NumSub(n, Num(1))
        f          == NumDiv(ToNumber(wheelDelta), ToNumber(detail))
        delta1     ==
            IF Truthy(detail)
            THEN IF Truthy(wheelDelta) /\ ~f.nan /\ f # Zero
                 THEN NumDiv(ToNumber(detail), f)
                 ELSE NumDiv(NumNeg(ToNumber(detail)), Frac(135, 100))
            ELSE NumDiv(ToNumber(wheelDelta), Num(120))
        delta2     ==
            IF NumLt(delta1, Num(1))
            THEN IF NumLt(delta1, Num(-1))
                 THEN NumDiv(NumSub(NumNeg(Sqr(delta1)), n1), n)
                 ELSE delta1
            ELSE NumDiv(NumAdd(Sqr(delta1), n1), n)
    IN  MathMin(MathMax(NumDiv(delta2, Num(2)), Num(-1)), Num(1))

(* Mutant: a wheel handler that drops a delta that is not a number.        *)
wheelHandlerGuarded(ev) ==
    LET delta == normalizeWheelDelta(ev)
    IN  /\ Handled(ev, IF delta.nan THEN <<>> ELSE <<ZoomCall(delta)>>,
                   FALSE, FALSE)
        /\ UNCHANGED <<mouse, touch>>

wheelHandler(ev) ==
    LET delta == normalizeWheelDelta(ev)
    IN  /\ Handled(ev, <<ZoomCall(delta)>>, FALSE, FALSE)
        /\ UNCHANGED <<mouse, touch>>

(* Mutant: a release that leaves the drag on.                              *)
mouseUpHandlerKeepsDragging(ev) ==
    /\ Handled(ev, <<>>, TRUE, FALSE)
    /\ UNCHANGED <<mouse, touch>>

mouseUpHandler(ev) ==
    /\ mouse' = [mouse EXCEPT !.dragging = FALSE]
    /\ Handled(ev, <<>>, TRUE, FALSE)
    /\ UNCHANGED touch

(* Mutant: a press that leaves the event to the host.                      *)
mouseDownHandlerNotConsumed(ev) ==
    /\ mouse' = [dragging |-> TRUE,
                 originX  |-> Num(ev.clientX),
                 originY  |-> Num(ev.clientY)]
    /\ Handled(ev, <<>>, FALSE, FALSE)
    /\ UNCHANGED touch

mouseDownHandler(ev) ==
    /\ mouse' = [dragging |-> TRUE,
                 originX  |-> Num(ev.clientX),
                 originY  |-> Num(ev.clientY)]
    /\ Handled(ev, <<>>, TRUE, FALSE)
    /\ UNCHANGED touch

(* Mutant: the delta taken as current minus origin.                        *)
mouseMoveHandlerReversed(ev) ==
    /\ IF mouse.dragging
       THEN /\ Handled(ev,
                       <<PanCall(NumSub(Num(ev.clientX), mouse.originX),
                                 NumSub(Num(ev.clientY), mouse.originY))>>,
                       TRUE, FALSE)
            /\ mouse' = [mouse EXCEPT !.originX = Num(ev.clientX),
                                      !.originY = Num(ev.clientY)]
       ELSE /\ Handled(ev, <<>>, FALSE, FALSE)
            /\ UNCHANGED mouse
    /\ UNCHANGED touch

mouseMoveHandler(ev) ==
    /\ IF mouse.dragging
       THEN /\ Handled(ev,
                       <<PanCall(NumSub(mouse.originX, Num(ev.clientX)),
                                 NumSub(mouse.originY, Num(ev.clientY)))>>,
                       TRUE, FALSE)
            /\ mouse' = [mouse EXCEPT !.originX = Num(ev.clientX),
                                      !.originY = Num(ev.clientY)]
       ELSE /\ Handled(ev, <<>>, FALSE, FALSE)
            /\ UNCHANGED mouse
    /\ UNCHANGED touch

-----------------------------------------------------------------------------
(* SVGPAZ.KeyboardHandler                                                  *)

charCode(ev) == IF ev.which # 0 THEN ev.which ELSE ev.keyCode

(* Mutant: the up and down arrows exchanged.                               *)
keydownCallsUpDown(code) ==
    CASE code = 107 -> <<ZoomCall(Num(1))>>
      [] code = 109 -> <<ZoomCall(Num(-1))>>
      [] code = 39  -> <<PanCall(Num(10), Num(0))>>
      [] code = 37  -> <<PanCall(Num(-10), Num(0))>>
      [] code = 38  -> <<PanCall(Num(0), Num(10))>>
      [] code = 40  -> <<PanCall(Num(0), Num(-10))>>
      [] OTHER      -> <<>>

keydownCalls(code) ==
    CASE code = 107 -> <<ZoomCall(Num(1))>>
      [] code = 109 -> <<ZoomCall(Num(-1))>>
      [] code = 39  -> <<PanCall(Num(10), Num(0))>>
      [] code = 37  -> <<PanCall(Num(-10), Num(0))>>
      [] code = 38  -> <<PanCall(Num(0), Num(-10))>>
      [] code = 40  -> <<PanCall(Num(0), Num(10))>>
      [] OTHER      -> <<>>

(* Mutant: a key-down that ends the drag.                                  *)
keydownHandlerEndsDrag(ev) ==
    /\ Handled(ev, keydownCalls(charCode(ev)), FALSE, FALSE)
    /\ mouse' = [mouse EXCEPT !.dragging = FALSE]
    /\ UNCHANGED touch

keydownHandler(ev) ==
    /\ Handled(ev, keydownCalls(charCode(ev)), FALSE, FALSE)
    /\ UNCHANGED <<mouse, touch>>

-----------------------------------------------------------------------------
(* SVGPAZ.TouchHandler                                                     *)

Null  == [null |-> TRUE]
Touch(x, y) == [pageX |-> x, pageY |-> y]

TouchHandler == [mode |-> 0, fingers |-> <<Null, Null>>]

(* Mutant: the mode taken from the contact count without the check that    *)
(* it is 1 or 2.                                                           *)
touchStartHandlerUnchecked(ev) ==
    LET length == Len(ev.touches)
    IN  /\ touch' = [mode    |-> length,
                     fingers |-> [i \in 1..2 |->
                                     IF i <= length THEN ev.touches[i]
                                     ELSE touch.fingers[i]]]
        /\ Handled(ev, <<>>, FALSE, FALSE)
        /\ UNCHANGED mouse

(* Mutant: the mode set from the contact count, no snapshot taken.         *)
touchStartHandlerNoSnapshot(ev) ==
    LET length == Len(ev.touches)
    IN  /\ touch' = [touch EXCEPT
                        !.mode = IF length # 1 /\ length # 2 THEN 0 ELSE length]
        /\ Handled(ev, <<>>, FALSE, FALSE)
        /\ UNCHANGED mouse

(* touchEndHandler is the same function object as touchStartHandler.       *)
touchStartHandler(ev) ==
    LET length == Len(ev.touches)
    IN  /\ IF length # 1 /\ length # 2
           THEN touch' = [touch EXCEPT !.mode = 0]
           ELSE touch' = [mode    |-> length,
                          fingers |-> [i \in 1..2 |->
                                          IF i <= length THEN ev.touches[i]
                                          ELSE touch.fingers[i]]]
        /\ Handled(ev, <<>>, FALSE, FALSE)
        /\ UNCHANGED mouse

(* Mutant: a touch-end that sets the mode and takes no snapshot.           *)
touchEndHandlerModeOnly(ev) ==
    LET length == Len(ev.touches)
    IN  /\ touch' = [touch EXCEPT
                        !.mode = IF length # 1 /\ length # 2 THEN 0 ELSE length]
        /\ Handled(ev, <<>>, FALSE, FALSE)
        /\ UNCHANGED mouse

touchEndHandler(ev) == touchStartHandler(ev)

(* Reading pageX or pageY of null or of a missing entry of event.touches   *)
(* is a TypeError, which ends the handler where it is raised.              *)
Readable(list, i) == i <= Len(list) /\ list[i] # Null

(* Mutant: the distance taken along the axes.                              *)
distanceAlongAxes(a, b) ==
    NumAdd(Num(Abs(a.pageX - b.pageX)), Num(Abs(a.pageY - b.pageY)))

distance(a, b) ==
    MathSqrt(NumAdd(Sqr(NumSub(Num(a.pageX), Num(b.pageX))),
                    Sqr(NumSub(Num(a.pageY), Num(b.pageY)))))

(* Mutant: a pan that keeps the snapshot it measured from.                 *)
touchMoveHandlerKeepsSnapshot(ev) ==
    /\ CASE touch.mode = 1 ->
              IF Readable(touch.fingers, 1) /\ Readable(ev.touches, 1)
              THEN /\ Handled(ev,
                        <<PanCall(Num(touch.fingers[1].pageX - ev.touches[1].pageX),
                                  Num(touch.fingers[1].pageY - ev.touches[1].pageY))>>,
                        TRUE, FALSE)
                   /\ UNCHANGED touch
              ELSE /\ Handled(ev, <<>>, TRUE, TRUE)
                   /\ UNCHANGED touch
         [] touch.mode = 2 ->
              IF /\ Readable(touch.fingers, 1) /\ Readable(touch.fingers, 2)
                 /\ Readable(ev.touches, 1) /\ Readable(ev.touches, 2)
              THEN LET previousDistance ==
                           distance(touch.fingers[1], touch.fingers[2])
                       currentDistance ==
                           distance(ev.touches[1], ev.touches[2])
                       dist == NumDiv(NumSub(currentDistance, previousDistance),
                                      Num(100))
                   IN  /\ Handled(ev, <<ZoomCall(dist)>>, TRUE, FALSE)
                       /\ touch' = [touch EXCEPT !.fingers[1] = ev.touches[1],
                                                 !.fingers[2] = ev.touches[2]]
              ELSE /\ Handled(ev, <<>>, TRUE, TRUE)
                   /\ UNCHANGED touch
         [] OTHER ->
              /\ Handled(ev, <<>>, FALSE, FALSE)
              /\ UNCHANGED touch
    /\ UNCHANGED mouse

touchMoveHandler(ev) ==
    /\ CASE touch.mode = 1 ->
              IF Readable(touch.fingers, 1) /\ Readable(ev.touches, 1)
              THEN /\ Handled(ev,
                        <<PanCall(Num(touch.fingers[1].pageX - ev.touches[1].pageX),
                                  Num(touch.fingers[1].pageY - ev.touches[1].pageY))>>,
                        TRUE, FALSE)
                   /\ touch' = [touch EXCEPT !.fingers[1] = ev.touches[1]]
              ELSE /\ Handled(ev, <<>>, TRUE, TRUE)
                   /\ UNCHANGED touch
         [] touch.mode = 2 ->
              IF /\ Readable(touch.fingers, 1) /\ Readable(touch.fingers, 2)
                 /\ Readable(ev.touches, 1) /\ Readable(ev.touches, 2)
              THEN LET previousDistance ==
                           distance(touch.fingers[1], touch.fingers[2])
                       currentDistance ==
                           distance(ev.touches[1], ev.touches[2])
                       dist == NumDiv(NumSub(currentDistance, previousDistance),
                                      Num(100))
                   IN  /\ Handled(ev, <<ZoomCall(dist)>>, TRUE, FALSE)
                       /\ touch' = [touch EXCEPT !.fingers[1] = ev.touches[1],
                                                 !.fingers[2] = ev.touches[2]]
              ELSE /\ Handled(ev, <<>>, TRUE, TRUE)
                   /\ UNCHANGED touch
         [] OTHER ->
              /\ Handled(ev, <<>>, FALSE, FALSE)
              /\ UNCHANGED touch
    /\ UNCHANGED mouse

-----------------------------------------------------------------------------
(* The events of the model.                                                *)

WheelEvent(type, detail, wheelDelta) ==
    [type |-> type, detail |-> detail, wheelDelta |-> wheelDelta]
MouseEvent(type, x, y) == [type |-> type, clientX |-> x, clientY |-> y]
KeyEvent(which, keyCode) ==
    [type |-> "keydown", which |-> which, keyCode |-> keyCode]
TouchEvent(type, touches) == [type |-> type, touches |-> touches]

(* mousewheel events carry wheelDelta (and a detail of 0), DOMMouseScroll  *)
(* events carry detail only; the last one carries neither.  3600 and 3 are *)
(* magnitudes beyond the unit scale, on which the quadratic branches act.  *)
WheelEvents ==
    {WheelEvent("mousewheel", Val(0), Val(120)),
     WheelEvent("mousewheel", Val(0), Val(-120)),
     WheelEvent("mousewheel", Val(0), Val(3600)),
     WheelEvent("mousewheel", Val(3), Val(-120)),
     WheelEvent("DOMMouseScroll", Val(3), Undefined),
     WheelEvent("DOMMouseScroll", Val(-1), Undefined),
     WheelEvent("DOMMouseScroll", Val(0), Undefined),
     WheelEvent("DOMMouseScroll", Undefined, Undefined)}

MousePositions == {<<100, 100>>, <<90, 95>>, <<110, 100>>}

MappedKeys == {107, 109, 39, 37, 38, 40}
KeyEvents ==
    {KeyEvent(c, c) : c \in MappedKeys \cup {65}}
        \cup {KeyEvent(0, c) : c \in {107, 13}}

(* Contact points on one line, at distances 50, 100 and 150 of each other. *)
(* A touch-start or touch-end carries any of the lists; a touch-move       *)
(* carries at least the contact that moved.                                *)
TouchA == Touch(0, 0)
TouchB == Touch(30, 40)
TouchC == Touch(90, 120)
TouchLists ==
    {<<>>, <<TouchA>>, <<TouchC>>,
     <<TouchA, TouchB>>, <<TouchA, TouchC>>, <<TouchB, TouchC>>,
     <<TouchA, TouchB, TouchC>>}

(* The arguments of the direct calls of the two Viewer methods.            *)
PanArgs  == {<<10, 5>>, <<-10, -5>>, <<1000, 0>>}
ZoomArgs == {1, 20}

-----------------------------------------------------------------------------
(* A caller of the Viewer other than the handlers.                         *)

PanningSetCall(deltaX, deltaY) ==
    /\ Handled([type |-> "panningSet", deltaX |-> deltaX, deltaY |-> deltaY],
               <<PanCall(Num(deltaX), Num(deltaY))>>, FALSE, FALSE)
    /\ UNCHANGED <<mouse, touch>>

ZoomSetCall(delta) ==
    /\ Handled([type |-> "zoomSet", delta |-> delta],
               <<ZoomCall(Num(delta))>>, FALSE, FALSE)
    /\ UNCHANGED <<mouse, touch>>

-----------------------------------------------------------------------------
(* SVGPAZ.init: one viewer, one handler of each kind, all on the document. *)

Init ==
    /\ \E d \in Documents : viewer = Viewer(Element, d[1], d[2], d[3])
    /\ mouse = MouseHandler
    /\ touch = TouchHandler
    /\ event = [type |-> "load"]
    /\ calls = <<>>
    /\ defaultPrevented = FALSE
    /\ threw = FALSE
    /\ nEvents = 0
    /\ drag = NoDrag

Wheel      == \E ev \in WheelEvents : wheelHandler(ev)
MouseUp    == \E p \in MousePositions :
                  mouseUpHandler(MouseEvent("mouseup", p[1], p[2]))
MouseDown  == \E p \in MousePositions :
                  mouseDownHandler(MouseEvent("mousedown", p[1], p[2]))
MouseMove  == \E p \in MousePositions :
                  mouseMoveHandler(MouseEvent("mousemove", p[1], p[2]))
KeyDown    == \E ev \in KeyEvents : keydownHandler(ev)
TouchStart == \E ts \in TouchLists :
                  touchStartHandler(TouchEvent("touchstart", ts))
TouchMove  == \E ts \in TouchLists \ {<<>>} :
                  touchMoveHandler(TouchEvent("touchmove", ts))
TouchEnd   == \E ts \in TouchLists :
                  touchEndHandler(TouchEvent("touchend", ts))
PanDirect  == \E a \in PanArgs : PanningSetCall(a[1], a[2])
ZoomDirect == \E d \in ZoomArgs : ZoomSetCall(d)

Next ==
    \/ Wheel
    \/ MouseUp
    \/ MouseDown
    \/ MouseMove
    \/ KeyDown
    \/ TouchStart
    \/ TouchMove
    \/ TouchEnd
    \/ PanDirect
    \/ ZoomDirect

Spec == Init /\ [][Next]_vars

-----------------------------------------------------------------------------
(* Properties.                                                             *)

(* lo <= x <= hi for a number x (NaN is in no range).                      *)
InRange(x, lo, hi) ==
    IsRat(x) /\ ~NumLt(x, Num(lo)) /\ ~NumLt(Num(hi), x)

LastCall  == calls[Len(calls)]
Panned    == calls # <<>> /\ LastCall.op = "pan"
Zoomed    == calls # <<>> /\ LastCall.op = "zoom"
Panning   == calls' # <<>> /\ calls'[1].op = "pan"

(* C1: whatever the current level and whatever delta a handler (key,       *)
(* wheel, two-finger gesture) or a caller passes to zoomSet, the zoom      *)
(* level that results is a number in [1,10].                               *)
C1_ZoomLevelInRange == InRange(viewer.zoom, 1, 10)

(* C2: in every reachable state divider = 2^(zoom - 1): 1 at zoom 1, 2 at  *)
(* zoom 2, 512 at zoom 10, and in general the number whose square is       *)
(* 2^(2 * (zoom - 1)).                                                     *)
C2_DividerIsPowerOfTwo ==
    /\ viewer.divider = Pow2(NumSub(viewer.zoom, Num(1)))
    /\ Sqr(viewer.divider) = Pow2(NumMul(Num(2), NumSub(viewer.zoom, Num(1))))
    /\ viewer.zoom = Num(1)  => viewer.divider = Num(1)
    /\ viewer.zoom = Num(2)  => viewer.divider = Num(2)
    /\ viewer.zoom = Num(10) => viewer.divider = Num(512)

(* C2 witness: a zoomSet call has brought the viewer to zoom 10, where the *)
(* divider is 512.                                                         *)
C2_Witness ==
    Zoomed /\ viewer.zoom = Num(10) /\ viewer.divider = Num(512)

(* C3: every panningSet(dx, dy), from a handler or direct, adds            *)
(* dx * containerRatio / divider to centerX and dy * containerRatio /      *)
(* divider to centerY, with the divider of the current zoom level, and     *)
(* nothing keeps the result inside the document.                           *)
C3_PanAddsScaledDelta ==
    [][Panning =>
         /\ viewer'.centerX =
              NumAdd(viewer.centerX,
                     NumDiv(NumMul(calls'[1].deltaX, viewer.containerRatio),
                            viewer.divider))
         /\ viewer'.centerY =
              NumAdd(viewer.centerY,
                     NumDiv(NumMul(calls'[1].deltaY, viewer.containerRatio),
                            viewer.divider))]_vars

(* C3 witness: a pan by a positive screen delta has moved the center to    *)
(* the right of the document, beyond maxWidth.                             *)
C3_Witness ==
    /\ Panned
    /\ NumLt(Zero, LastCall.deltaX)
    /\ IsRat(viewer.centerX)
    /\ NumLt(viewer.maxWidth, viewer.centerX)

(* C4: at a given zoom level panningSet is additive: from every reachable  *)
(* state, panningSet(a, b) then panningSet(c, d), in either order, leaves  *)
(* the center that the one call panningSet(a + c, b + d) leaves, and       *)
(* panningSet(a, b) then panningSet(-a, -b) leaves the center where it was.*)
Center(v) == <<v.centerX, v.centerY>>
C4_PanningIsAdditive ==
    \A p \in PanArgs :
        LET a == Num(p[1])
            b == Num(p[2])
        IN  /\ Center(panningSet(panningSet(viewer, a, b), NumNeg(a), NumNeg(b)))
                 = Center(viewer)
            /\ \A q \in PanArgs :
                   LET c   == Num(q[1])
                       d   == Num(q[2])
                       one == panningSet(viewer, NumAdd(a, c), NumAdd(b, d))
                   IN  /\ Center(panningSet(panningSet(viewer, a, b), c, d))
                            = Center(one)
                       /\ Center(panningSet(panningSet(viewer, c, d), a, b))
                            = Center(one)

(* C4 witness: the second of two events, panningSet(-10, -5), has brought  *)
(* the center back to the middle of the document, where it started and     *)
(* from where only panningSet(10, 5) at the same zoom level had moved it.  *)
C4_Witness ==
    /\ nEvents = 2
    /\ Panned
    /\ LastCall = PanCall(Num(-10), Num(-5))
    /\ viewer.centerX = NumDiv(viewer.maxWidth, Num(2))
    /\ viewer.centerY = NumDiv(viewer.maxHeight, Num(2))

(* C5: a mouse move while dragging calls pan with the origin minus the     *)
(* position of the move, the origin being the position of the press or of  *)
(* the move of this drag handled last, and the origin then becomes the     *)
(* position of the move; a press at (100,100) then a move to (90,95) calls *)
(* pan(10, 5).                                                             *)
Position(ev) == <<Num(ev.clientX), Num(ev.clientY)>>
Origin(m)    == <<m.originX, m.originY>>
C5_DragPansByOriginMinusPosition ==
    [][/\ (event'.type = "mousemove" /\ mouse.dragging) =>
              /\ calls' = <<PanCall(NumSub(mouse.originX, Num(event'.clientX)),
                                    NumSub(mouse.originY, Num(event'.clientY)))>>
              /\ Origin(mouse') = Position(event')
       /\ event'.type = "mousedown" => Origin(mouse') = Position(event')
       /\ (event'.type = "mousemove" /\ ~mouse.dragging) =>
              Origin(mouse') = Origin(mouse)
       /\ event'.type \notin {"mousedown", "mousemove"} =>
              Origin(mouse') = Origin(mouse)
       /\ (/\ mouse.dragging
           /\ Origin(mouse) = <<Num(100), Num(100)>>
           /\ event' = MouseEvent("mousemove", 90, 95)) =>
              calls' = <<PanCall(Num(10), Num(5))>>]_vars

(* C5 witness: the move to (90,95) of a drag whose origin was (100,100)    *)
(* has called pan(10, 5) and left (90,95) as the origin.                   *)
C5_Witness ==
    /\ event = MouseEvent("mousemove", 90, 95)
    /\ calls = <<PanCall(Num(10), Num(5))>>
    /\ Origin(mouse) = <<Num(90), Num(95)>>

(* C6: the tracker starts idle; a press makes it dragging and a release    *)
(* idle, and nothing else changes that; a move calls pan when the tracker  *)
(* is dragging (a press came earlier with no release since) and otherwise  *)
(* does nothing at all.                                                    *)
Shown(v) == <<v.centerX, v.centerY, v.zoom, v.divider, v.doc.viewBox>>
C6_MovePansOnlyWhileDragging ==
    /\ ~mouse.dragging
    /\ [][/\ event'.type = "mouseup" => ~mouse'.dragging
          /\ event'.type = "mousedown" => mouse'.dragging
          /\ event'.type \notin {"mouseup", "mousedown"} =>
                 mouse'.dragging = mouse.dragging
          /\ event'.type = "mousemove" =>
                 IF mouse.dragging
                 THEN Len(calls') = 1 /\ calls'[1].op = "pan"
                 ELSE /\ calls' = <<>>
                      /\ ~defaultPrevented'
                      /\ Shown(viewer') = Shown(viewer)
                      /\ mouse' = mouse
                      /\ touch' = touch]_vars

(* C6 witness: a move that called nothing, after a press (the origin has   *)
(* been set) and a release (the tracker is idle).                          *)
C6_Witness ==
    /\ event.type = "mousemove"
    /\ calls = <<>>
    /\ ~mouse.dragging
    /\ mouse.originX # Num(0)

(* C7: mode is always 0, 1 or 2; a touch-start or touch-end with 0, 3 or   *)
(* more contacts leaves mode 0; a touch-move in mode 0 calls neither pan   *)
(* nor zoom.                                                               *)
C7_OtherContactCountsIdle ==
    /\ [](touch.mode \in {0, 1, 2})
    /\ [][/\ (/\ event'.type \in {"touchstart", "touchend"}
              /\ Len(event'.touches) \notin {1, 2}) => touch'.mode = 0
          /\ (event'.type = "touchmove" /\ touch.mode = 0) =>
                 /\ calls' = <<>>
                 /\ Shown(viewer') = Shown(viewer)]_vars

(* C7 witness: a touch-move of three contacts that called nothing, the     *)
(* tracker idle although an earlier touch-start had taken a snapshot.      *)
C7_Witness ==
    /\ event.type = "touchmove"
    /\ Len(event.touches) = 3
    /\ touch.mode = 0
    /\ touch.fingers[1] # Null
    /\ calls = <<>>

(* C8: in mode 2 a touch-move that carries two touches calls zoom once,    *)
(* with (currentDistance - previousDistance) / 100, the distances being    *)
(* the Euclidean ones between the two stored snapshots and between the two *)
(* touches of the event, calls no pan, and stores the two touches; from    *)
(* distance 50 to distance 150 the delta is 1.                             *)
Euclid(a, b) ==
    LET dx == a.pageX - b.pageX
        dy == a.pageY - b.pageY
    IN  CHOOSE r \in 0..(Abs(dx) + Abs(dy)) : r * r = dx * dx + dy * dy
C8_PinchZoomsByDistanceChange ==
    [][(/\ event'.type = "touchmove"
        /\ touch.mode = 2
        /\ Len(event'.touches) >= 2) =>
           LET previous == Euclid(touch.fingers[1], touch.fingers[2])
               current  == Euclid(event'.touches[1], event'.touches[2])
           IN  /\ calls' = <<ZoomCall(Frac(current - previous, 100))>>
               /\ touch'.mode = 2
               /\ touch'.fingers = <<event'.touches[1], event'.touches[2]>>
               /\ (previous = 50 /\ current = 150) =>
                      calls'[1].delta = Num(1)]_vars

(* C8 witness: two fingers 50 apart have moved to 150 apart, and the       *)
(* touch-move has called zoom(1) and stored the two touches.               *)
C8_Witness ==
    /\ event = TouchEvent("touchmove", <<TouchA, TouchC>>)
    /\ calls = <<ZoomCall(Num(1))>>
    /\ touch.mode = 2
    /\ touch.fingers = <<TouchA, TouchC>>

(* C9: for a wheel event whose detail and wheelDelta are finite numbers,   *)
(* either of them possibly zero or absent but not both absent, the wheel   *)
(* handler calls zoom with normalizeWheelDelta of the event, a number in   *)
(* [-1, 1].                                                                *)
IsWheel(ev) == ev.type \in {"mousewheel", "DOMMouseScroll"}
C9_WheelDeltaInUnitRange ==
    (IsWheel(event) /\ (event.detail.def \/ event.wheelDelta.def)) =>
        /\ calls = <<ZoomCall(normalizeWheelDelta(event))>>
        /\ InRange(calls[1].delta, -1, 1)

(* C10: a key-down calls what the table gives for its code, once, and      *)
(* nothing for any other code; it is never consumed, and the handler has   *)
(* no state: the mouse and touch trackers are as they were.                *)
KeyTable ==
    [c \in MappedKeys |->
        IF c = 107 THEN ZoomCall(Num(1))
        ELSE IF c = 109 THEN ZoomCall(Num(-1))
        ELSE PanCall(Num(IF c = 39 THEN 10 ELSE IF c = 37 THEN -10 ELSE 0),
                     Num(IF c = 40 THEN 10 ELSE IF c = 38 THEN -10 ELSE 0))]
C10_KeyMap ==
    [][event'.type = "keydown" =>
          LET code == IF event'.which # 0 THEN event'.which
                      ELSE event'.keyCode
          IN  /\ calls' = IF code \in MappedKeys THEN <<KeyTable[code]>>
                          ELSE <<>>
              /\ ~defaultPrevented'
              /\ code \notin MappedKeys => Shown(viewer') = Shown(viewer)
              /\ mouse' = mouse
              /\ touch' = touch]_vars

(* C10 witness: the up arrow has called pan(0, -10).                       *)
C10_Witness ==
    /\ event = KeyEvent(38, 38)
    /\ calls = <<PanCall(Num(0), Num(-10))>>

(* C11: nothing is batched.  Every panningSet or zoomSet call writes the   *)
(* viewBox once, so an event writes it as many times as it made calls; and *)
(* every wheel event, every mouse move while dragging, every mapped        *)
(* key-down and every touch-move in mode 1 or 2 makes exactly one call,    *)
(* hence one write, before the next event is handled.                      *)
C11_OneCallbackOnePublish ==
    [][/\ viewer'.doc.setAttributeCalls = Len(calls')
       /\ event'.type \in {"panningSet", "zoomSet"} => Len(calls') = 1
       /\ IsWheel(event') => Len(calls') = 1
       /\ (event'.type = "mousemove" /\ mouse.dragging) => Len(calls') = 1
       /\ (event'.type = "keydown" /\ charCode(event') \in MappedKeys) =>
              Len(calls') = 1
       /\ (event'.type = "touchmove" /\ touch.mode \in {1, 2}) =>
              Len(calls') = 1]_vars

(* C12: preventDefault is called on every mouse press, on every mouse      *)
(* release, on a mouse move exactly when the tracker is dragging and on a  *)
(* touch-move exactly when the mode is 1 or 2; it is not called on a       *)
(* key-down of an unmapped key.                                            *)
C12_ConsumedEvents ==
    [][/\ event'.type \in {"mousedown", "mouseup"} => defaultPrevented'
       /\ event'.type = "mousemove" => defaultPrevented' = mouse.dragging
       /\ event'.type = "touchmove" =>
              defaultPrevented' = (touch.mode \in {1, 2})
       /\ (event'.type = "keydown" /\ charCode(event') \notin MappedKeys) =>
              ~defaultPrevented']_vars

(* C12 witness: a touch-move in mode 1 has been consumed, after a mouse    *)
(* press that left the mouse tracker dragging.                             *)
C12_Witness ==
    /\ event.type = "touchmove"
    /\ touch.mode = 1
    /\ defaultPrevented
    /\ mouse.dragging

(* C13: a touch-end does to the tracker what a touch-start with the same   *)
(* contacts does: one contact left gives mode 1 with slot 0 holding that   *)
(* contact, two contacts left give mode 2 with both slots holding them,    *)
(* none left gives mode 0; the touch-end calls neither pan nor zoom, and   *)
(* the touch-move that follows it measures from the contacts of the        *)
(* touch-end.                                                              *)
C13_TouchEndResnapshots ==
    [][/\ event'.type = "touchend" =>
              /\ Len(event'.touches) = 1 =>
                     /\ touch'.mode = 1
                     /\ touch'.fingers[1] = event'.touches[1]
                     /\ touch'.fingers[2] = touch.fingers[2]
              /\ Len(event'.touches) = 2 =>
                     /\ touch'.mode = 2
                     /\ touch'.fingers = event'.touches
              /\ Len(event'.touches) = 0 => touch'.mode = 0
              /\ calls' = <<>>
              /\ Shown(viewer') = Shown(viewer)
       /\ (/\ event.type = "touchend"
           /\ event'.type = "touchmove"
           /\ touch.mode = 1) =>
              calls' = <<PanCall(
                  Num(event.touches[1].pageX - event'.touches[1].pageX),
                  Num(event.touches[1].pageY - event'.touches[1].pageY))>>
       /\ (/\ event.type = "touchend"
           /\ event'.type = "touchmove"
           /\ touch.mode = 2
           /\ Len(event'.touches) >= 2) =>
              calls' = <<ZoomCall(Frac(
                  Euclid(event'.touches[1], event'.touches[2])
                      - Euclid(event.touches[1], event.touches[2]), 100))>>]_vars

(* C13 witness: of two contacts, the second at (90,120), the first has     *)
(* been lifted: the touch-end has left mode 1 with slot 0 holding the      *)
(* contact that remains (slot 1 keeps what it held) and has called         *)
(* nothing.                                                                *)
C13_Witness ==
    /\ event = TouchEvent("touchend", <<TouchC>>)
    /\ touch = [mode |-> 1, fingers |-> <<TouchC, TouchC>>]
    /\ calls = <<>>

(* C14: in mode 1 a touch-move calls pan once, with the slot 0 snapshot    *)
(* minus the first touch of the event, calls no zoom, and then stores that *)
(* touch in slot 0; slot 1 plays no part: it may never have been set, and  *)
(* it is left as it was.                                                   *)
C14_OneFingerPans ==
    [][(event'.type = "touchmove" /\ touch.mode = 1) =>
          /\ calls' = <<PanCall(
                 Num(touch.fingers[1].pageX - event'.touches[1].pageX),
                 Num(touch.fingers[1].pageY - event'.touches[1].pageY))>>
          /\ ~threw'
          /\ touch'.mode = 1
          /\ touch'.fingers[1] = event'.touches[1]
          /\ touch'.fingers[2] = touch.fingers[2]]_vars

(* C14 witness: one finger has moved from (90,120) to (0,0) and the        *)
(* touch-move has called pan(90, 120) and stored (0,0) in slot 0, slot 1   *)
(* being unset.                                                            *)
C14_Witness ==
    /\ event.type = "touchmove"
    /\ calls = <<PanCall(Num(90), Num(120))>>
    /\ touch = [mode |-> 1, fingers |-> <<TouchA, Null>>]

C16_ViewBoxIsCurrent ==
    LET width   == NumDiv(viewer.maxWidth, viewer.divider)
        height  == NumDiv(viewer.maxHeight, viewer.divider)
        viewBox == viewer.doc.viewBox
    IN  /\ calls # <<>> => viewBox # NoViewBox
        /\ viewBox # NoViewBox =>
              /\ viewBox = <<NumSub(viewer.centerX, NumDiv(width, Num(2))),
                             NumSub(viewer.centerY, NumDiv(height, Num(2))),
                             width, height>>
              /\ (\A i \in 1..4 : ~viewBox[i].nan) =>
                     /\ NumAdd(viewBox[1], NumDiv(viewBox[3], Num(2)))
                            = viewer.centerX
                     /\ NumAdd(viewBox[2], NumDiv(viewBox[4], Num(2)))
                            = viewer.centerY
                     /\ NumMul(viewBox[3], viewer.divider) = viewer.maxWidth
                     /\ NumMul(viewBox[4], viewer.divider) = viewer.maxHeight

(* C16 witness: a pan at zoom 2 has written a viewBox half the document    *)
(* wide whose middle is the center, which is no longer the middle of the   *)
(* document.                                                               *)
C16_Witness ==
    /\ Panned
    /\ viewer.zoom = Num(2)
    /\ viewer.centerX # NumDiv(viewer.maxWidth, Num(2))
    /\ viewer.doc.viewBox[3] = NumDiv(viewer.maxWidth, Num(2))
    /\ NumAdd(viewer.doc.viewBox[1], NumDiv(viewer.doc.viewBox[3], Num(2)))
           = viewer.centerX

(* C17: zoomSet leaves centerX and centerY as they were, panningSet leaves *)
(* zoom and divider as they were, and maxWidth, maxHeight and              *)
(* containerRatio are in every state the values the constructor gave them. *)
C17_FrameConditions ==
    /\ [](\E d \in Documents :
              /\ viewer.maxWidth = Num(d[1])
              /\ viewer.maxHeight = Num(d[2])
              /\ viewer.containerRatio = Frac(d[1], d[3]))
    /\ [][/\ (calls' # <<>> /\ calls'[1].op = "zoom") =>
                 Center(viewer') = Center(viewer)
          /\ Panning =>
                 /\ viewer'.zoom = viewer.zoom
                 /\ viewer'.divider = viewer.divider
          /\ viewer'.maxWidth = viewer.maxWidth
          /\ viewer'.maxHeight = viewer.maxHeight
          /\ viewer'.containerRatio = viewer.containerRatio]_vars

(* C17 witness: a zoom to level 2 has left the center where a pan had put  *)
(* it, away from the middle of the document.                               *)
C17_Witness ==
    /\ Zoomed
    /\ viewer.zoom = Num(2)
    /\ IsRat(viewer.centerX)
    /\ viewer.centerX # NumDiv(viewer.maxWidth, Num(2))

(* C18: whatever the order of the events, the mouse tracker (dragging,     *)
(* originX, originY) changes on mouse button and move events only and the  *)
(* touch tracker (mode, fingers) on touch events only; a zoom by the wheel *)
(* or a key during a drag leaves the drag on, and the move that follows    *)
(* pans with the divider of the new level; and the viewer goes from event  *)
(* to event by the calls of the event alone, applied as they are made:     *)
(* none leaves center and zoom as they were, a pan adds its scaled delta   *)
(* to the center, a zoom adds its delta to the level and clamps.           *)
C18_HandlersDoNotInterfere ==
    [][/\ event'.type \notin {"mousedown", "mouseup", "mousemove"} =>
              mouse' = mouse
       /\ event'.type \notin {"touchstart", "touchend", "touchmove"} =>
              touch' = touch
       /\ (/\ event.type \in {"keydown", "mousewheel", "DOMMouseScroll"}
           /\ Zoomed
           /\ mouse.dragging
           /\ event'.type = "mousemove") =>
              LET deltaX  == NumSub(mouse.originX, Num(event'.clientX))
                  deltaY  == NumSub(mouse.originY, Num(event'.clientY))
                  divider == Pow2(NumSub(viewer.zoom, Num(1)))
              IN  /\ calls' = <<PanCall(deltaX, deltaY)>>
                  /\ mouse'.dragging
                  /\ viewer'.centerX =
                       NumAdd(viewer.centerX,
                              NumDiv(NumMul(deltaX, viewer.containerRatio),
                                     divider))
                  /\ viewer'.centerY =
                       NumAdd(viewer.centerY,
                              NumDiv(NumMul(deltaY, viewer.containerRatio),
                                     divider))
       /\ Len(calls') <= 1
       /\ calls' = <<>> =>
              /\ Center(viewer') = Center(viewer)
              /\ viewer'.zoom = viewer.zoom
       /\ Panning =>
              /\ viewer'.centerX =
                   NumAdd(viewer.centerX,
                          NumDiv(NumMul(calls'[1].deltaX, viewer.containerRatio),
                                 viewer.divider))
              /\ viewer'.centerY =
                   NumAdd(viewer.centerY,
                          NumDiv(NumMul(calls'[1].deltaY, viewer.containerRatio),
                                 viewer.divider))
              /\ viewer'.zoom = viewer.zoom
       /\ (calls' # <<>> /\ calls'[1].op = "zoom") =>
              /\ Center(viewer') = Center(viewer)
              /\ viewer'.zoom =
                   MathMin(Num(10),
                           MathMax(Num(1),
                                   NumAdd(viewer.zoom, calls'[1].delta)))]_vars

(* C18 witness: during a drag, with two fingers on the surface, the + key  *)
(* has zoomed to level 2; the drag is still on and the touch tracker       *)
(* still in mode 2.                                                        *)
C18_Witness ==
    /\ event = KeyEvent(107, 107)
    /\ mouse.dragging
    /\ viewer.zoom = Num(2)
    /\ touch.mode = 2

(* C19: over a drag the deltas of the pan calls add up to the position of  *)
(* the press minus the position of the last move; so, when the zoom level  *)
(* has not changed since the press (and no pan has come from elsewhere),   *)
(* the center is away from where it was at the press by that difference    *)
(* times containerRatio / divider, and a move back to the position of the  *)
(* press brings the center back to where it was.                           *)
C19_DragSumsToPressMinusLast ==
    (mouse.dragging /\ event.type = "mousemove") =>
        LET last  == Position(event)
            moved == <<NumSub(drag.press[1], last[1]),
                       NumSub(drag.press[2], last[2])>>
        IN  /\ drag.sum = moved
            /\ (~drag.zoomed /\ ~drag.panned) =>
                  /\ NumSub(viewer.centerX, drag.start[1]) =
                       NumDiv(NumMul(moved[1], viewer.containerRatio),
                              viewer.divider)
                  /\ NumSub(viewer.centerY, drag.start[2]) =
                       NumDiv(NumMul(moved[2], viewer.containerRatio),
                              viewer.divider)
                  /\ last = drag.press => Center(viewer) = drag.start

(* C20: after a touch-start or touch-end the mode is the number of         *)
(* contacts of the event when that is 1 or 2, and 0 otherwise; in every    *)
(* state the slots below the mode hold a touch of an event, never the      *)
(* null they start with; so a touch-move that carries at least as many     *)
(* touches as the mode reads set slots only and ends without an error.     *)
C20_SlotsBelowModeAreSet ==
    /\ [](\A i \in 1..touch.mode :
              /\ touch.fingers[i] # Null
              /\ \E ts \in TouchLists :
                     \E k \in 1..Len(ts) : touch.fingers[i] = ts[k])
    /\ [][/\ event'.type \in {"touchstart", "touchend"} =>
                 touch'.mode = IF Len(event'.touches) \in {1, 2}
                               THEN Len(event'.touches) ELSE 0
          /\ (/\ event'.type = "touchmove"
              /\ Len(event'.touches) >= touch.mode) =>
                 /\ ~threw'
                 /\ touch.mode \in {1, 2} => Len(calls') = 1]_vars

(* C20 witness: the third event, a touch-move of two touches in mode 2,    *)
(* has read both slots and zoomed without an error.                        *)
C20_Witness ==
    /\ nEvents = 3
    /\ event.type = "touchmove"
    /\ Len(event.touches) = 2
    /\ touch.mode = 2
    /\ Zoomed
    /\ ~threw

=============================================================================
